---- MODULE Spec2Model ----
(***************************************************************************)
(* Model of the rolling-statistics buffer (TradingDataBuffer) and of the   *)
(* symbol registry (TradingDataService) of src/src/lib.rs.                 *)
(*                                                                         *)
(* Samples are f64 in the source.  The model uses integer-valued samples,  *)
(* on which f64 addition, multiplication and comparison are exact; the     *)
(* two quotients of get_stats (avg, var) are kept as exact reduced         *)
(* fractions.  NaN and infinities are outside the model.                   *)
(***************************************************************************)
EXTENDS Integers, Sequences, FiniteSets, TLC

(***************************************************************************)
(* Bounds of the model.                                                    *)
(***************************************************************************)
\* samples are drawn from MinVal..MaxVal
MinVal == 0 - 1
MaxVal == 2
\* SpecBuf: capacities 1..MaxCap, batches of at most MaxBatchLen values,
\* at most MaxAppends values appended in total
MaxCap == 3
MaxBatchLen == 2
MaxAppends == 5
\* Spec: NumProcs concurrent callers, NumSymbols symbols, at most MaxIngests
\* calls of add_batch_values, samples 1..MaxSvcVal
NumProcs == 2
NumSymbols == 2
MaxIngests == 2
MaxSvcVal == 2
\* The source's tier capacities are 10^k and its batch limit is 10000
\* (lib.rs:114, 108).  The model keeps the shape (capacity TierBase^k, limit
\* MAX_BATCH_SIZE) with small numbers so that windows fill and evict and
\* batches reach the limit within the explored runs.
\* Likewise the source keeps 8 buffers per symbol ((1..=8) at lib.rs:114,
\* k > 8 at lib.rs:125); the model keeps NumTiers of them.
TierBase == 2
MAX_BATCH_SIZE == 2
NumTiers == 3

Values == MinVal..MaxVal

(***************************************************************************)
(* f64::MAX and f64::MIN, the construction-time values of min and max      *)
(* (lib.rs:20-21) and the seeds of the fold in recalculate_min_max         *)
(* (lib.rs:51).  They stand for +/-1.797e308: any pair of integers beyond  *)
(* every sample of the model orders the same way.                          *)
(***************************************************************************)
F64_MAX == 1000
F64_MIN == 0 - F64_MAX

\* f64::min and f64::max on non-NaN operands (lib.rs:46-47, 52)
fmin(a, b) == IF a <= b THEN a ELSE b
fmax(a, b) == IF a >= b THEN a ELSE b

(***************************************************************************)
(* Exact fractions for the two divisions of get_stats.                     *)
(***************************************************************************)
Abs(x) == IF x < 0 THEN 0 - x ELSE x

RECURSIVE Gcd(_, _)
Gcd(a, b) == IF b = 0 THEN a ELSE Gcd(b, a % b)

\* the quotient n / d, d > 0, as a reduced fraction
Frac(n, d) ==
    LET g == Gcd(Abs(n), d)
    IN  [num |-> n \div g, den |-> d \div g]

FracZero == [num |-> 0, den |-> 1]

(***************************************************************************)
(* TradingDataBuffer (lib.rs:6-13).  values is the VecDeque, front first.  *)
(***************************************************************************)
\* TradingDataBuffer::new (lib.rs:16-25)
new(capacity) ==
    [values      |-> << >>,
     capacity    |-> capacity,
     min         |-> F64_MAX,
     max         |-> F64_MIN,
     sum         |-> 0,
     sum_squares |-> 0]

\* the fold of recalculate_min_max over the deque (lib.rs:51-53)
RECURSIVE FoldMinMax(_, _, _)
FoldMinMax(vs, mn, mx) ==
    IF vs = << >> THEN <<mn, mx>>
    ELSE FoldMinMax(Tail(vs), fmin(mn, Head(vs)), fmax(mx, Head(vs)))

\* TradingDataBuffer::recalculate_min_max (lib.rs:50-56)
recalculate_min_max(b) ==
    LET mm == FoldMinMax(b.values, F64_MAX, F64_MIN)
    IN  [b EXCEPT !.min = mm[1], !.max = mm[2]]

\* Evict with the rescan only when the evicted value was the min
Evict_MinOnly(b) ==
    LET old_value == Head(b.values)
        popped == [b EXCEPT !.values = Tail(b.values),
                            !.sum = b.sum - old_value,
                            !.sum_squares = b.sum_squares - old_value * old_value]
    IN  IF old_value = b.min
        THEN recalculate_min_max(popped)
        ELSE popped

\* Evict that takes the evicted value, not its square, off sum_squares
Evict_NoSquare(b) ==
    LET old_value == Head(b.values)
        popped == [b EXCEPT !.values = Tail(b.values),
                            !.sum = b.sum - old_value,
                            !.sum_squares = b.sum_squares - old_value]
    IN  IF old_value = b.min \/ old_value = b.max
        THEN recalculate_min_max(popped)
        ELSE popped

\* the rescan test that looks for another copy of the extremum first: no
\* rescan while one remains in the window
RescanNeeded_Unique(b) ==
    LET old_value == Head(b.values)
        rest == Tail(b.values)
    IN  /\ old_value = b.min \/ old_value = b.max
        /\ \A i \in 1..Len(rest) : rest[i] # old_value

\* the test of add on the evicted value (lib.rs:38)
RescanNeeded(b) ==
    LET old_value == Head(b.values)
    IN  old_value = b.min \/ old_value = b.max

\* the eviction branch of add (lib.rs:34-41); pop_front().unwrap() needs a
\* non-empty deque
Evict(b) ==
    LET old_value == Head(b.values)
        popped == [b EXCEPT !.values = Tail(b.values),
                            !.sum = b.sum - old_value,
                            !.sum_squares = b.sum_squares - old_value * old_value]
    IN  IF RescanNeeded(b)
        THEN recalculate_min_max(popped)
        ELSE popped

\* add takes the eviction branch on an empty deque, where
\* pop_front().unwrap() panics (lib.rs:34-35)
AddPanics(b) == Len(b.values) >= b.capacity /\ b.values = << >>

\* add takes the eviction branch and calls recalculate_min_max
\* (lib.rs:34-40)
AddRescans(b) ==
    /\ Len(b.values) >= b.capacity
    /\ ~AddPanics(b)
    /\ RescanNeeded(b)

\* add that evicts only once the window is longer than the capacity
add_LateEvict(b, value) ==
    LET e == IF Len(b.values) > b.capacity THEN Evict(b) ELSE b
    IN  [e EXCEPT !.values = Append(e.values, value),
                  !.sum = e.sum + value,
                  !.sum_squares = e.sum_squares + value * value,
                  !.min = fmin(e.min, value),
                  !.max = fmax(e.max, value)]

\* TradingDataBuffer::add (lib.rs:33-48)
add(b, value) ==
    LET e == IF Len(b.values) >= b.capacity THEN Evict(b) ELSE b
    IN  [e EXCEPT !.values = Append(e.values, value),
                  !.sum = e.sum + value,
                  !.sum_squares = e.sum_squares + value * value,
                  !.min = fmin(e.min, value),
                  !.max = fmax(e.max, value)]

\* add_batch with new_values.iter().rev(): a batch is appended last value
\* first
RECURSIVE add_batch_Rev(_, _)
add_batch_Rev(b, new_values) ==
    IF new_values = << >> THEN b
    ELSE add(add_batch_Rev(b, Tail(new_values)), Head(new_values))

\* TradingDataBuffer::add_batch (lib.rs:27-31)
RECURSIVE add_batch(_, _)
add_batch(b, new_values) ==
    IF new_values = << >> THEN b
    ELSE add_batch(add(b, Head(new_values)), Tail(new_values))

\* some add of add_batch(b, new_values) panics (lib.rs:27-35)
RECURSIVE BatchPanics(_, _)
BatchPanics(b, new_values) ==
    /\ new_values # << >>
    /\ \/ AddPanics(b)
       \/ BatchPanics(add(b, Head(new_values)), Tail(new_values))

\* the number of calls of recalculate_min_max that add_batch(b, new_values)
\* makes (lib.rs:27-40)
RECURSIVE CountRescans(_, _)
CountRescans(b, new_values) ==
    IF new_values = << >> THEN 0
    ELSE (IF AddRescans(b) THEN 1 ELSE 0)
            + CountRescans(add(b, Head(new_values)), Tail(new_values))

\* StatsResponse::default (lib.rs:84-94)
StatsDefault ==
    [min |-> 0, max |-> 0, last |-> 0, avg |-> FracZero, var |-> FracZero]

\* get_stats without the early return for an empty window taking effect on
\* min and max: the maintained fields are reported as they are
get_stats_RawMinMax(b) ==
    IF b.values = << >>
    THEN [min |-> b.min, max |-> b.max, last |-> 0,
          avg |-> FracZero, var |-> FracZero]
    ELSE LET n == Len(b.values)
         IN  [min  |-> b.min,
              max  |-> b.max,
              last |-> b.values[n],
              avg  |-> Frac(b.sum, n),
              var  |-> Frac(n * b.sum_squares - b.sum * b.sum, n * n)]

\* get_stats with the sample variance: the squared deviations are divided
\* by n - 1 (by 1 for a single value) for n
get_stats_SampleVar(b) ==
    IF b.values = << >> THEN StatsDefault
    ELSE LET n == Len(b.values)
             m == IF n = 1 THEN 1 ELSE n - 1
         IN  [min  |-> b.min,
              max  |-> b.max,
              last |-> b.values[n],
              avg  |-> Frac(b.sum, n),
              var  |-> Frac(n * b.sum_squares - b.sum * b.sum, n * m)]

\* TradingDataBuffer::get_stats (lib.rs:58-73)
\* avg = sum / n; var = sum_squares / n - avg * avg = (n*sum_squares - sum^2) / n^2
get_stats(b) ==
    IF b.values = << >> THEN StatsDefault
    ELSE LET n == Len(b.values)
         IN  [min  |-> b.min,
              max  |-> b.max,
              last |-> b.values[n],
              avg  |-> Frac(b.sum, n),
              var  |-> Frac(n * b.sum_squares - b.sum * b.sum, n * n)]

(***************************************************************************)
(* Reference functions on plain sequences, used to state the properties.   *)
(***************************************************************************)
RECURSIVE SeqSum(_)
SeqSum(s) == IF s = << >> THEN 0 ELSE Head(s) + SeqSum(Tail(s))

RECURSIVE SeqSumSq(_)
SeqSumSq(s) == IF s = << >> THEN 0 ELSE Head(s) * Head(s) + SeqSumSq(Tail(s))

SeqRange(s) == {s[i] : i \in 1..Len(s)}
SeqMin(s) == CHOOSE m \in SeqRange(s) : \A x \in SeqRange(s) : m <= x
SeqMax(s) == CHOOSE m \in SeqRange(s) : \A x \in SeqRange(s) : m >= x

\* the last n elements of s (all of s when it is shorter)
LastN(s, n) ==
    IF Len(s) <= n THEN s ELSE SubSeq(s, Len(s) - n + 1, Len(s))

\* sequences over S of length at most n
SeqsUpTo(S, n) == UNION {[1..k -> S] : k \in 0..n}

(***************************************************************************)
(* TradingDataService (lib.rs:96-135).                                     *)
(***************************************************************************)
Procs == 1..NumProcs
Symbols == 1..NumSymbols
SvcValues == 1..MaxSvcVal
NoProc == 0

RECURSIVE Pow(_, _)
Pow(b, e) == IF e = 0 THEN 1 ELSE b * Pow(b, e - 1)

\* capacity of the buffer built for k in (1..=8): 10usize.pow(k) (lib.rs:114)
TierCapacity(k) == Pow(TierBase, k)

\* the closure with (0..8) for (1..=8): capacities start at 10^0
NewEntry_FromZero == [i \in 0..(NumTiers - 1) |-> new(TierCapacity(i))]

\* the closure of or_insert_with (lib.rs:113-115): a Vec of 8 buffers,
\* index k - 1 holding the buffer of capacity 10^k
NewEntry == [i \in 0..(NumTiers - 1) |-> new(TierCapacity(i + 1))]

\* the size check with >= for >
BatchTooLarge_AtLimit(values) == Len(values) >= MAX_BATCH_SIZE

\* values.len() > 10000 (lib.rs:108)
BatchTooLarge(values) == Len(values) > MAX_BATCH_SIZE

\* the tier check with >= for >
InvalidTier_AtLast(k) == k < 1 \/ k >= NumTiers

\* k < 1 || k > 8 (lib.rs:125)
InvalidTier(k) == k < 1 \/ k > NumTiers

\* the results of the two operations (lib.rs:109, 121, 126, 133)
OkUnit == [kind |-> "Ok", stats |-> StatsDefault]
ErrBatchTooLarge == [kind |-> "BatchTooLarge", stats |-> StatsDefault]
ErrInvalidTier == [kind |-> "InvalidTier", stats |-> StatsDefault]
ErrSymbolNotFound == [kind |-> "SymbolNotFound", stats |-> StatsDefault]
OkStats(st) == [kind |-> "Stats", stats |-> st]

\* the lookup with b.get(k) for b.get(k - 1)
Lookup_NoOffset(map, symbol, k) ==
    IF symbol \notin DOMAIN map THEN ErrSymbolNotFound
    ELSE IF k \notin DOMAIN map[symbol] THEN ErrSymbolNotFound
    ELSE OkStats(get_stats(map[symbol][k]))

\* buffers.get(&symbol).and_then(|b| b.get(k - 1)).map(|b| b.get_stats())
\*     .ok_or_else(|| "Symbol not found")                     (lib.rs:130-133)
Lookup(map, symbol, k) ==
    IF symbol \notin DOMAIN map THEN ErrSymbolNotFound
    ELSE IF (k - 1) \notin DOMAIN map[symbol] THEN ErrSymbolNotFound
    ELSE OkStats(get_stats(map[symbol][k - 1]))

(***************************************************************************)
(* tokio::sync::RwLock guarding the map (lib.rs:97, 112, 129).  The lock   *)
(* is fair: callers that cannot take it at once wait in a FIFO queue, and *)
(* a release hands the lock to the queue's head(s) in order.               *)
(***************************************************************************)
LockFree == [writer |-> NoProc, readers |-> {}, waiters |-> << >>]

\* a read() that does not look at the writer
CanRead_IgnoresWriter(l) == l.waiters = << >>

\* a write() that does not look at the writer
CanWrite_IgnoresWriter(l) == l.waiters = << >> /\ l.readers = {}

\* whether read() / write() succeeds at once
CanRead(l) == l.waiters = << >> /\ l.writer = NoProc
CanWrite(l) == l.waiters = << >> /\ l.writer = NoProc /\ l.readers = {}

\* a release that wakes nobody
Grant_Nobody(l, wants) == l

\* hand the lock to the waiters at the head of the queue, in order, for as
\* long as the head can be served; wants[p] is "read" or "write"
RECURSIVE Grant(_, _)
Grant(l, wants) ==
    IF l.waiters = << >> THEN l
    ELSE LET h == Head(l.waiters)
         IN  IF wants[h] = "read" /\ l.writer = NoProc
             THEN Grant([l EXCEPT !.readers = @ \cup {h},
                                  !.waiters = Tail(@)], wants)
             ELSE IF wants[h] = "write" /\ l.writer = NoProc /\ l.readers = {}
             THEN [l EXCEPT !.writer = h, !.waiters = Tail(@)]
             ELSE l

\* dropping the write guard (lib.rs:122) or a read guard (lib.rs:134)
ReleaseWrite(l, wants) == Grant([l EXCEPT !.writer = NoProc], wants)
ReleaseRead(l, p, wants) == Grant([l EXCEPT !.readers = @ \ {p}], wants)

VARIABLES
    buf,       \* SpecBuf: the buffer under test
    hist,      \* SpecBuf: every value appended to buf so far, in order
    snap,      \* SpecBuf: the last StatsResponse returned by buf.get_stats()
    rescans,   \* SpecBuf: how often add has called recalculate_min_max
    panicked,  \* SpecBuf: an add has panicked in pop_front().unwrap()
    buffers,   \* the HashMap: symbol -> Vec of NumTiers buffers (lib.rs:97)
    lock,      \* the RwLock around the map
    pc,        \* where each caller is in add_batch_values / get_stats
    arg,       \* the arguments of each caller's call in progress
    pos,       \* <<tier index, value index>> of a caller's fan-out loops
    ret,       \* the call that the last step returned from, if it returned
               \* from one: caller, arguments, result
    log,       \* per symbol, the batches applied, in write-lock order
    created,   \* per symbol, how often the or_insert_with closure ran
    ingested,  \* the symbols for which add_batch_values has returned Ok
    raced      \* symbols that two callers ingested concurrently while unseen

bufvars == <<buf, hist, snap, rescans, panicked>>
svcvars == <<buffers, lock, pc, arg, pos, ret, log, created, ingested,
             raced>>
vars == <<buf, hist, snap, rescans, panicked, buffers, lock, pc, arg, pos,
          ret, log, created, ingested, raced>>

NoArg == [op |-> "none", symbol |-> 1, values |-> << >>, k |-> 1]
NoReturn == [proc |-> NoProc, call |-> NoArg, result |-> OkUnit]

SvcInit ==
    /\ buffers = << >>
    /\ lock = LockFree
    /\ pc = [p \in Procs |-> "idle"]
    /\ arg = [p \in Procs |-> NoArg]
    /\ pos = [p \in Procs |-> <<0, 1>>]
    /\ ret = NoReturn
    /\ log = [s \in Symbols |-> << >>]
    /\ created = [s \in Symbols |-> 0]
    /\ ingested = {}
    /\ raced = {}

(***************************************************************************)
(* Single-buffer specification: one TradingDataBuffer of some capacity,    *)
(* driven by add_batch and read by get_stats.                              *)
(***************************************************************************)
BufInit ==
    /\ \E c \in 1..MaxCap : buf = new(c)
    /\ hist = << >>
    /\ snap = StatsDefault
    /\ rescans = 0
    /\ panicked = FALSE
    /\ SvcInit

\* buf.add_batch(vs)
AppendBatch ==
    \E vs \in SeqsUpTo(Values, MaxBatchLen) :
        /\ ~panicked
        /\ Len(hist) + Len(vs) <= MaxAppends
        /\ IF BatchPanics(buf, vs)
           THEN /\ panicked' = TRUE
                /\ UNCHANGED <<buf, hist, rescans>>
           ELSE /\ buf' = add_batch(buf, vs)
                /\ hist' = hist \o vs
                /\ rescans' = rescans + CountRescans(buf, vs)
                /\ UNCHANGED panicked
        /\ UNCHANGED snap
        /\ UNCHANGED svcvars

\* buf.get_stats()
Snapshot ==
    /\ ~panicked
    /\ snap' = get_stats(buf)
    /\ UNCHANGED <<buf, hist, rescans, panicked>>
    /\ UNCHANGED svcvars

BufNext == AppendBatch \/ Snapshot

SpecBuf == BufInit /\ [][BufNext]_vars

\* the same buffer with every capacity that TradingDataBuffer::new accepts:
\* new takes any usize and checks nothing (lib.rs:16-25)
CapInit ==
    /\ \E c \in 0..MaxCap : buf = new(c)
    /\ hist = << >>
    /\ snap = StatsDefault
    /\ rescans = 0
    /\ panicked = FALSE
    /\ SvcInit

SpecCap == CapInit /\ [][BufNext]_vars

(***************************************************************************)
(* Service specification: NumProcs callers of add_batch_values and         *)
(* get_stats on one TradingDataService.                                    *)
(***************************************************************************)
Init ==
    /\ buf = new(1)
    /\ hist = << >>
    /\ snap = StatsDefault
    /\ rescans = 0
    /\ panicked = FALSE
    /\ SvcInit

\* the batches callers send: every batch within the limit, and one batch of
\* limit + 1 values (only the length of a batch over the limit is looked at)
Batches ==
    SeqsUpTo(SvcValues, MAX_BATCH_SIZE)
        \cup {[i \in 1..(MAX_BATCH_SIZE + 1) |-> 1]}

\* what each caller asks of the lock
Wants == [p \in Procs |-> IF arg[p].op = "ingest" THEN "write" ELSE "read"]

\* the callers' places once caller p has returned and the lock is l
Woken(p, l) ==
    [q \in Procs |->
        IF q = p THEN "idle"
        ELSE IF q = l.writer THEN "insert"
        ELSE IF q \in l.readers THEN "read"
        ELSE pc[q]]

\* number of calls of add_batch_values that passed the size check
RECURSIVE SumLen(_, _)
SumLen(f, S) ==
    IF S = {} THEN 0
    ELSE LET x == CHOOSE y \in S : TRUE
         IN  Len(f[x]) + SumLen(f, S \ {x})

NumAccepted ==
    SumLen(log, Symbols)
        + Cardinality({p \in Procs : pc[p] \in {"write_wait", "insert"}})

\* a call of add_batch_values by another caller for symbol s that has passed
\* the size check and not yet run or_insert_with
PendingFirstWrite(p, s) ==
    \E q \in Procs \ {p} :
        /\ pc[q] \in {"write_wait", "insert"}
        /\ arg[q].symbol = s

\* add_batch_values(symbol, values) up to the .await of write() (lib.rs:107-112)
IngestBegin(p) ==
    \E s \in Symbols, vs \in Batches :
        /\ pc[p] = "idle"
        /\ NumAccepted < MaxIngests
        /\ LET call == [op |-> "ingest", symbol |-> s, values |-> vs, k |-> 1]
           IN  IF BatchTooLarge(vs)
               THEN /\ ret' = [proc |-> p, call |-> call,
                               result |-> ErrBatchTooLarge]
                    /\ UNCHANGED <<pc, arg, lock, raced>>
               ELSE /\ arg' = [arg EXCEPT ![p] = call]
                    /\ raced' = IF s \notin DOMAIN buffers
                                   /\ PendingFirstWrite(p, s)
                                THEN raced \cup {s} ELSE raced
                    /\ IF CanWrite(lock)
                       THEN /\ lock' = [lock EXCEPT !.writer = p]
                            /\ pc' = [pc EXCEPT ![p] = "insert"]
                       ELSE /\ lock' = [lock EXCEPT !.waiters = Append(@, p)]
                            /\ pc' = [pc EXCEPT ![p] = "write_wait"]
                    /\ ret' = NoReturn
        /\ UNCHANGED <<bufvars, buffers, pos, log, created, ingested>>

\* the insertion with buffers.insert(symbol, ...) for
\* entry(symbol).or_insert_with(...): a fresh entry on every call
IngestInsert_Always(p) ==
    /\ pc[p] = "insert"
    /\ LET s == arg[p].symbol
       IN  /\ buffers' = [t \in DOMAIN buffers \cup {s} |->
                             IF t = s THEN NewEntry ELSE buffers[t]]
           /\ created' = [created EXCEPT ![s] = @ + 1]
           /\ log' = [log EXCEPT ![s] = Append(@, arg[p].values)]
    /\ pc' = [pc EXCEPT ![p] = IF arg[p].values = << >>
                               THEN "ingest_ret" ELSE "add"]
    /\ ret' = NoReturn
    /\ UNCHANGED <<bufvars, lock, arg, pos, ingested, raced>>

\* buffers.entry(symbol).or_insert_with(...) under the write guard
\* (lib.rs:113-115)
IngestInsert(p) ==
    /\ pc[p] = "insert"
    /\ LET s == arg[p].symbol
       IN  /\ IF s \in DOMAIN buffers
              THEN UNCHANGED <<buffers, created>>
              ELSE /\ buffers' = [t \in DOMAIN buffers \cup {s} |->
                                     IF t = s THEN NewEntry ELSE buffers[t]]
                   /\ created' = [created EXCEPT ![s] = @ + 1]
           /\ log' = [log EXCEPT ![s] = Append(@, arg[p].values)]
    /\ pc' = [pc EXCEPT ![p] = IF arg[p].values = << >>
                               THEN "ingest_ret" ELSE "add"]
    /\ ret' = NoReturn
    /\ UNCHANGED <<bufvars, lock, arg, pos, ingested, raced>>

\* the fan-out with buffers.iter_mut().rev().skip(1): the last tier never
\* receives the batch
IngestAdd_SkipLast(p) ==
    /\ pc[p] = "add"
    /\ LET s == arg[p].symbol
           ti == pos[p][1]
           vi == pos[p][2]
           n == Len(arg[p].values)
       IN  /\ buffers' = [buffers EXCEPT ![s][ti] = add(@, arg[p].values[vi])]
           /\ IF vi < n
              THEN /\ pos' = [pos EXCEPT ![p] = <<ti, vi + 1>>]
                   /\ UNCHANGED pc
              ELSE IF ti < NumTiers - 2
              THEN /\ pos' = [pos EXCEPT ![p] = <<ti + 1, 1>>]
                   /\ UNCHANGED pc
              ELSE /\ pos' = [pos EXCEPT ![p] = <<0, 1>>]
                   /\ pc' = [pc EXCEPT ![p] = "ingest_ret"]
    /\ ret' = NoReturn
    /\ UNCHANGED <<bufvars, lock, arg, log, created, ingested, raced>>

\* the fan-out with buffers.values_mut().flatten() for the entry of the
\* symbol: the batch goes to the tiers of every symbol of the map
IngestAdd_AllSymbols(p) ==
    /\ pc[p] = "add"
    /\ LET s == arg[p].symbol
           ti == pos[p][1]
           vi == pos[p][2]
           n == Len(arg[p].values)
       IN  /\ buffers' = [t \in DOMAIN buffers |->
                          [buffers[t] EXCEPT ![ti] = add(@, arg[p].values[vi])]]
           /\ IF vi < n
              THEN /\ pos' = [pos EXCEPT ![p] = <<ti, vi + 1>>]
                   /\ UNCHANGED pc
              ELSE IF ti < NumTiers - 1
              THEN /\ pos' = [pos EXCEPT ![p] = <<ti + 1, 1>>]
                   /\ UNCHANGED pc
              ELSE /\ pos' = [pos EXCEPT ![p] = <<0, 1>>]
                   /\ pc' = [pc EXCEPT ![p] = "ingest_ret"]
    /\ ret' = NoReturn
    /\ UNCHANGED <<bufvars, lock, arg, log, created, ingested, raced>>

\* one self.add(value) of the loops at lib.rs:117-119 and lib.rs:28-30
IngestAdd(p) ==
    /\ pc[p] = "add"
    /\ LET s == arg[p].symbol
           ti == pos[p][1]
           vi == pos[p][2]
           n == Len(arg[p].values)
       IN  /\ buffers' = [buffers EXCEPT ![s][ti] = add(@, arg[p].values[vi])]
           /\ IF vi < n
              THEN /\ pos' = [pos EXCEPT ![p] = <<ti, vi + 1>>]
                   /\ UNCHANGED pc
              ELSE IF ti < NumTiers - 1
              THEN /\ pos' = [pos EXCEPT ![p] = <<ti + 1, 1>>]
                   /\ UNCHANGED pc
              ELSE /\ pos' = [pos EXCEPT ![p] = <<0, 1>>]
                   /\ pc' = [pc EXCEPT ![p] = "ingest_ret"]
    /\ ret' = NoReturn
    /\ UNCHANGED <<bufvars, lock, arg, log, created, ingested, raced>>

\* Ok(()) and the drop of the write guard (lib.rs:121-122)
IngestReturn(p) ==
    /\ pc[p] = "ingest_ret"
    /\ ret' = [proc |-> p, call |-> arg[p], result |-> OkUnit]
    /\ arg' = [arg EXCEPT ![p] = NoArg]
    /\ ingested' = ingested \cup {arg[p].symbol}
    /\ LET l == ReleaseWrite(lock, Wants)
       IN  /\ lock' = l
           /\ pc' = Woken(p, l)
    /\ UNCHANGED <<bufvars, buffers, pos, log, created, raced>>

\* get_stats(symbol, k) up to the .await of read() (lib.rs:124-129)
QueryBegin(p) ==
    \E s \in Symbols, k \in 0..(NumTiers + 1) :
        /\ pc[p] = "idle"
        /\ LET call == [op |-> "query", symbol |-> s, values |-> << >>,
                        k |-> k]
           IN  IF InvalidTier(k)
               THEN /\ ret' = [proc |-> p, call |-> call,
                               result |-> ErrInvalidTier]
                    /\ UNCHANGED <<pc, arg, lock>>
               ELSE /\ arg' = [arg EXCEPT ![p] = call]
                    /\ IF CanRead(lock)
                       THEN /\ lock' = [lock EXCEPT !.readers = @ \cup {p}]
                            /\ pc' = [pc EXCEPT ![p] = "read"]
                       ELSE /\ lock' = [lock EXCEPT !.waiters = Append(@, p)]
                            /\ pc' = [pc EXCEPT ![p] = "read_wait"]
                    /\ ret' = NoReturn
        /\ UNCHANGED <<bufvars, buffers, pos, log, created, ingested, raced>>

\* the lookup with entry(symbol).or_insert_with(...) for get(&symbol): a
\* query for an unknown symbol leaves an entry behind
QueryRead_Inserts(p) ==
    /\ pc[p] = "read"
    /\ ret' = [proc |-> p, call |-> arg[p],
               result |-> Lookup(buffers, arg[p].symbol, arg[p].k)]
    /\ buffers' = [t \in DOMAIN buffers \cup {arg[p].symbol} |->
                      IF t \in DOMAIN buffers THEN buffers[t] ELSE NewEntry]
    /\ arg' = [arg EXCEPT ![p] = NoArg]
    /\ LET l == ReleaseRead(lock, p, Wants)
       IN  /\ lock' = l
           /\ pc' = Woken(p, l)
    /\ UNCHANGED <<bufvars, pos, log, created, ingested, raced>>

\* the lookup under the read guard, and the guard's drop (lib.rs:130-134)
QueryRead(p) ==
    /\ pc[p] = "read"
    /\ ret' = [proc |-> p, call |-> arg[p],
               result |-> Lookup(buffers, arg[p].symbol, arg[p].k)]
    /\ arg' = [arg EXCEPT ![p] = NoArg]
    /\ LET l == ReleaseRead(lock, p, Wants)
       IN  /\ lock' = l
           /\ pc' = Woken(p, l)
    /\ UNCHANGED <<bufvars, buffers, pos, log, created, ingested, raced>>

Step(p) ==
    \/ IngestInsert(p)
    \/ IngestAdd(p)
    \/ IngestReturn(p)
    \/ QueryRead(p)

Next ==
    \E p \in Procs :
        \/ IngestBegin(p)
        \/ QueryBegin(p)
        \/ Step(p)

Spec == Init /\ [][Next]_vars

\* every caller that can take a step of its call eventually takes one
FairSpec == Spec /\ \A p \in Procs : WF_vars(Step(p))

(***************************************************************************)
(* Properties of the single buffer (SpecBuf).                              *)
(***************************************************************************)

\* C1: whenever the window is non-empty, the maintained min is the smallest
\* value in the window and the maintained max is the largest, also after
\* appends that evicted the current min or the current max.
C1_MinMaxAreWindowExtrema ==
    buf.values # << >> =>
        /\ buf.min = SeqMin(buf.values)
        /\ buf.max = SeqMax(buf.values)
        /\ \A i \in 1..Len(buf.values) :
              buf.min <= buf.values[i] /\ buf.values[i] <= buf.max

\* the two values evicted last: one was below everything retained (it was the
\* min when it left), the other above everything retained (it was the max)
C1_Witness ==
    /\ Len(hist) >= buf.capacity + 2
    /\ buf.capacity >= 2
    /\ LET e1 == hist[Len(hist) - buf.capacity]
           e2 == hist[Len(hist) - buf.capacity - 1]
       IN  /\ e1 < SeqMin(buf.values)
           /\ e2 > SeqMax(buf.values)
           /\ e2 > e1

\* C2: the window is exactly the last min(n, capacity) appended values in
\* append order, never longer than capacity, and get_stats().last is the
\* value appended most recently.
C2_WindowIsLastValues ==
    /\ buf.values = LastN(hist, buf.capacity)
    /\ Len(buf.values) <= buf.capacity
    /\ Len(buf.values) =
          (IF Len(hist) <= buf.capacity THEN Len(hist) ELSE buf.capacity)
    /\ hist # << >> => get_stats(buf).last = hist[Len(hist)]

\* more values appended than the capacity, over at least two batches, and a
\* snapshot taken since whose last is the newest value
C2_Witness ==
    /\ Len(hist) > buf.capacity + MaxBatchLen
    /\ buf.capacity >= 2
    /\ snap.last = hist[Len(hist)]
    /\ hist[Len(hist)] # 0
    /\ hist[Len(hist)] # hist[Len(hist) - 1]

\* C3: sum is the sum of the values in the window and sum_squares the sum of
\* their squares (both zero for an empty window).
C3_SumsMatchWindow ==
    /\ buf.sum = SeqSum(buf.values)
    /\ buf.sum_squares = SeqSumSq(buf.values)
    /\ buf.values = << >> => buf.sum = 0 /\ buf.sum_squares = 0

\* evicting and non-evicting appends both happened, and the evicted values
\* were not all zero
C3_Witness ==
    /\ Len(hist) > buf.capacity
    /\ buf.capacity >= 2
    /\ SeqSum(hist) # buf.sum
    /\ SeqSumSq(hist) # buf.sum_squares
    /\ buf.sum # 0

\* sum over the window of (n * x - S)^2, n^2 times the sum of the squared
\* deviations from the mean S / n
RECURSIVE SeqDevSq(_, _, _)
SeqDevSq(s, n, S) ==
    IF s = << >> THEN 0
    ELSE (n * Head(s) - S) * (n * Head(s) - S) + SeqDevSq(Tail(s), n, S)

\* C14: for a non-empty window of n values, avg is their arithmetic mean and
\* var their population variance (divisor n): n * avg is the sum of the
\* window, n * n * var is n * (sum of squares) - (sum)^2, which is the sum of
\* the squared deviations from the mean divided by n, and is never negative.
C14_MeanAndPopulationVariance ==
    buf.values # << >> =>
        LET w == buf.values
            n == Len(w)
            S == SeqSum(w)
            Q == SeqSumSq(w)
            st == get_stats(buf)
        IN  /\ st.avg.den > 0 /\ st.var.den > 0
            /\ n * st.avg.num = S * st.avg.den
            /\ n * n * st.var.num = (n * Q - S * S) * st.var.den
            /\ n * n * n * st.var.num = SeqDevSq(w, n, S) * st.var.den
            /\ n * Q - S * S >= 0
            /\ st.var.num >= 0

\* a snapshot taken after evictions, of a window of at least two values
\* whose mean is not an integer and whose variance is positive, so that a
\* divisor of n - 1 would give another value
C14_Witness ==
    /\ buf.values # << >>
    /\ snap = get_stats(buf)
    /\ Len(hist) > buf.capacity
    /\ Len(buf.values) >= 2
    /\ snap.avg.den > 1
    /\ snap.var.num > 0
    /\ buf.sum < 0

\* C16: appending a sequence of values as several successive add_batch calls
\* leaves the buffer (window, sum, sum_squares, min, max) and its statistics
\* as one add_batch call with the concatenation does, for every capacity
\* >= 1 and every split of the sequence into two or three batches.
C16_SplitBatchesEqualOneBatch ==
    LET c == buf.capacity
        n == Len(hist)
        one == add_batch(new(c), hist)
    IN  /\ c >= 1
        /\ buf = one
        /\ get_stats(buf) = get_stats(one)
        /\ \A i \in 0..n : \A j \in i..n :
              add_batch(add_batch(add_batch(new(c), SubSeq(hist, 1, i)),
                                  SubSeq(hist, i + 1, j)),
                        SubSeq(hist, j + 1, n)) = one

\* at least three add_batch calls have been made, with values that differ,
\* and the first value has been evicted
C16_Witness ==
    /\ Len(hist) > 2 * MaxBatchLen
    /\ Len(hist) > buf.capacity
    /\ buf.capacity >= 2
    /\ buf.min < buf.max
    /\ hist[1] # hist[2] /\ hist[2] # hist[3]

\* C17: add_batch never fails on a buffer that new accepted, a buffer of
\* capacity 0 included: no append panics.
C17_AppendNeverFails == ~panicked

\* the appends of hist that evicted, with capacity c, a value equal to the
\* least or the greatest value of the window they found
EvictedAnExtremum(c) ==
    {i \in 1..Len(hist) :
        /\ i > c
        /\ LET w == SubSeq(hist, i - c, i - 1)
           IN  Head(w) = SeqMin(w) \/ Head(w) = SeqMax(w)}

\* C18: add rescans the window for min and max if and only if it evicts a
\* value and that value equals the current min or max, also when another
\* copy of it stays in the window: the rescans made so far are exactly the
\* appends that evicted an extremum of their window, and the next add
\* rescans iff the window is full and its oldest value is an extremum. An
\* add into a window that is not full never rescans and only widens min and
\* max by comparison with the new value.
C18_RescanIffEvictedExtremum ==
    LET w == buf.values
        full == Len(w) = buf.capacity
    IN  /\ rescans = Cardinality(EvictedAnExtremum(buf.capacity))
        /\ AddRescans(buf) <=>
              (full /\ (Head(w) = SeqMin(w) \/ Head(w) = SeqMax(w)))
        /\ ~full =>
              /\ Len(w) < buf.capacity
              /\ ~AddRescans(buf)
              /\ CountRescans(buf, <<MinVal>>) = 0
              /\ \A v \in Values :
                    /\ add(buf, v).min = fmin(buf.min, v)
                    /\ add(buf, v).max = fmax(buf.max, v)
                    /\ add(buf, v).values = Append(w, v)

\* the last append evicted a copy of the max while another copy of it
\* stayed in the window, the min was not touched and at least two rescans
\* have been made
C18_Witness ==
    LET c == buf.capacity
        n == Len(hist)
    IN  /\ c >= 2 /\ n > c
        /\ LET before == SubSeq(hist, n - c, n - 1)
           IN  /\ Head(before) = SeqMax(before)
               /\ Head(before) # SeqMin(before)
               /\ \E i \in 2..c : before[i] = Head(before)
        /\ n \in EvictedAnExtremum(c)
        /\ rescans >= 2

(***************************************************************************)
(* Properties of the service (Spec, FairSpec).                             *)
(***************************************************************************)
RECURSIVE Flatten(_)
Flatten(bs) == IF bs = << >> THEN << >> ELSE Head(bs) \o Flatten(Tail(bs))

\* what get_stats(s, k) returns when exactly the first n batches of log[s]
\* have been applied in full
AfterBatches(s, k, n) ==
    IF n = 0 THEN ErrSymbolNotFound
    ELSE OkStats(get_stats(add_batch(new(TierCapacity(k)),
                                     Flatten(SubSeq(log[s], 1, n)))))

InIngest(p) == pc[p] \in {"insert", "add", "ingest_ret"}
Waiting(p) == pc[p] \in {"write_wait", "read_wait"}
\* the step returns caller p's query from under the read guard
QueryReturns(p) == pc[p] = "read" /\ pc'[p] = "idle"

\* C4: what a query returned for a tier is the result after some whole
\* number of the symbol's batches: each batch is reflected in full or not at
\* all.
C4_NoTornRead ==
    (ret.call.op = "query" /\ ~InvalidTier(ret.call.k)) =>
        \E n \in 0..Len(log[ret.call.symbol]) :
            ret.result = AfterBatches(ret.call.symbol, ret.call.k, n)

\* the first ingest of a symbol, a batch of two different values, has just
\* returned and dropped the write guard, and a query of tier 1 of that
\* symbol, which had to queue behind it, now holds the read guard
C4_Witness ==
    /\ ret.call.op = "ingest" /\ ret.result = OkUnit
    /\ Len(ret.call.values) = 2
    /\ ret.call.values[1] # ret.call.values[2]
    /\ log[ret.call.symbol] = <<ret.call.values>>
    /\ \E q \in Procs :
          /\ q # ret.proc
          /\ pc[q] = "read"
          /\ arg[q].symbol = ret.call.symbol
          /\ arg[q].k = 1

\* C5: while an ingest for one symbol is between taking and dropping the
\* write guard, no call for a different symbol is kept waiting.
C5_NoCrossSymbolBlocking ==
    \A p, q \in Procs :
        (InIngest(p) /\ Waiting(q)) => arg[q].symbol = arg[p].symbol

\* C6: an ingest is rejected with BatchTooLarge exactly when its batch is
\* longer than the limit (a batch of exactly the limit is accepted), and the
\* step that rejects an ingest leaves the registry as it was: no buffer
\* changes and no entry appears.
C6_BatchTooLarge ==
    [][/\ ret'.call.op = "ingest" =>
             /\ ret'.result = ErrBatchTooLarge
                   <=> Len(ret'.call.values) > MAX_BATCH_SIZE
             /\ ret'.result = OkUnit
                   <=> Len(ret'.call.values) <= MAX_BATCH_SIZE
       /\ \A p \in Procs :
             arg'[p].op = "ingest" => Len(arg'[p].values) <= MAX_BATCH_SIZE
       /\ ret'.result = ErrBatchTooLarge =>
             /\ buffers' = buffers
             /\ DOMAIN buffers' = DOMAIN buffers
             /\ UNCHANGED <<log, created, ingested, lock>>]_vars

\* an ingest for a symbol that has no entry was just rejected and the symbol
\* still has none, while a batch of exactly the limit was accepted and
\* applied for the other symbol
C6_Witness ==
    /\ ret.call.op = "ingest" /\ ret.result = ErrBatchTooLarge
    /\ ret.call.symbol \notin DOMAIN buffers
    /\ \E s \in ingested :
          /\ Len(log[s]) = 1
          /\ Len(log[s][1]) = MAX_BATCH_SIZE
          /\ Len(buffers[s][NumTiers - 1].values) = MAX_BATCH_SIZE

\* C7: a query with a valid tier returns SymbolNotFound exactly when no
\* ingest for the symbol has returned Ok before the read; entries are never
\* removed, so a symbol once ingested is found ever after.
C7_SymbolNotFound ==
    [][/\ \A p \in Procs :
             QueryReturns(p) =>
                /\ ret'.proc = p /\ ret'.call = arg[p]
                /\ ret'.result = ErrSymbolNotFound
                      <=> arg[p].symbol \notin ingested
                /\ arg[p].symbol \in ingested <=> ret'.result.kind = "Stats"
       /\ ingested \subseteq ingested'
       /\ DOMAIN buffers \subseteq DOMAIN buffers'
       /\ ingested' \subseteq DOMAIN buffers']_vars

\* a symbol whose only ingest carried an empty batch was queried and found,
\* while the other symbol has never been ingested
C7_Witness ==
    /\ ret.call.op = "query" /\ ret.result.kind = "Stats"
    /\ log[ret.call.symbol] = << << >> >>
    /\ ret.call.symbol \in ingested
    /\ \E s \in Symbols : s \notin DOMAIN buffers

\* C8: a query returns InvalidTier exactly for the tiers outside
\* 1..NumTiers, whether or not the symbol exists; for an existing symbol and
\* a tier k inside it returns the snapshot of the buffer at index k - 1,
\* the buffer of capacity TierBase^k.
C8_InvalidTier ==
    [][/\ ret'.call.op = "query" =>
             (ret'.result = ErrInvalidTier <=> ret'.call.k \notin 1..NumTiers)
       /\ \A p \in Procs :
             arg'[p].op = "query" => arg'[p].k \in 1..NumTiers
       /\ \A p \in Procs :
             (QueryReturns(p) /\ arg[p].symbol \in DOMAIN buffers) =>
                /\ ret'.result =
                      OkStats(get_stats(buffers[arg[p].symbol][arg[p].k - 1]))
                /\ buffers[arg[p].symbol][arg[p].k - 1].capacity
                      = TierCapacity(arg[p].k)]_vars

\* tier NumTiers + 1 was just refused for a symbol that exists, while a
\* query of tier NumTiers of that symbol holds the read guard
C8_Witness ==
    /\ ret.call.op = "query" /\ ret.call.k = NumTiers + 1
    /\ ret.result = ErrInvalidTier
    /\ ret.call.symbol \in ingested
    /\ \E q \in Procs :
          /\ pc[q] = "read" /\ arg[q].k = NumTiers
          /\ arg[q].symbol = ret.call.symbol
          /\ buffers[arg[q].symbol][NumTiers - 1].values # << >>

\* C9: the entry of a symbol is created at most once, also when two first
\* ingests race; whenever no ingest of the symbol holds the write guard,
\* every tier's window is the last capacity-many values of all the batches
\* applied so far, so no batch is lost.
C9_CreatedOnce ==
    \A s \in Symbols :
        /\ created[s] <= 1
        /\ created[s] = 1 <=> s \in DOMAIN buffers
        /\ (s \in DOMAIN buffers
              /\ \A p \in Procs : ~(InIngest(p) /\ arg[p].symbol = s)) =>
              \A i \in 0..(NumTiers - 1) :
                 buffers[s][i].values
                    = LastN(Flatten(log[s]), TierCapacity(i + 1))

\* two ingests of a symbol were in flight together before it had an entry,
\* both have returned, and together they overflowed tier 1
C9_Witness ==
    \E s \in raced :
        /\ \A p \in Procs : pc[p] = "idle"
        /\ Len(log[s]) = 2
        /\ Len(log[s][1]) > 0 /\ Len(log[s][2]) > 0
        /\ Len(Flatten(log[s])) > TierCapacity(1)
        /\ Len(buffers[s][1].values) = Len(Flatten(log[s]))

C11_TiersAndCapacities ==
    [][\A s \in DOMAIN buffers' :
          /\ DOMAIN buffers'[s] = 0..(NumTiers - 1)
          /\ Cardinality(DOMAIN buffers'[s]) = NumTiers
          /\ buffers'[s][0].capacity = TierBase
          /\ \A i \in 1..(NumTiers - 1) :
                buffers'[s][i].capacity = TierBase * buffers'[s][i - 1].capacity
          /\ s \in DOMAIN buffers =>
                /\ DOMAIN buffers'[s] = DOMAIN buffers[s]
                /\ \A i \in DOMAIN buffers[s] :
                      buffers'[s][i].capacity = buffers[s][i].capacity]_vars

\* an entry that two ingests have filled past the capacity of its first
\* tier, and whose last tier a query has just read
C11_Witness ==
    /\ ret.call.op = "query" /\ ret.result.kind = "Stats"
    /\ ret.call.k = NumTiers
    /\ Len(log[ret.call.symbol]) = 2
    /\ Len(buffers[ret.call.symbol][NumTiers - 1].values)
          > buffers[ret.call.symbol][0].capacity
    /\ Len(buffers[ret.call.symbol][0].values)
          = buffers[ret.call.symbol][0].capacity

\* the value get_stats reports as last for a window (lib.rs:69)
LastOf(b) == get_stats(b).last

\* C12: an ingest forwards its batch to every tier: once the ingests of a
\* symbol have returned and its values total n, tier i holds exactly the
\* last min(n, capacity_i) values of the symbol's stream, a smaller tier's
\* window is a suffix of every larger tier's window, and all tiers report the
\* same last value.
C12_SameBatchEveryTier ==
    \A s \in DOMAIN buffers :
        (\A p \in Procs : ~(InIngest(p) /\ arg[p].symbol = s)) =>
            LET stream == Flatten(log[s])
                n == Len(stream)
                kept(i) == IF n < buffers[s][i].capacity
                           THEN n ELSE buffers[s][i].capacity
            IN  /\ \A i \in DOMAIN buffers[s] :
                      buffers[s][i].values
                         = SubSeq(stream, n - kept(i) + 1, n)
                /\ \A i, j \in DOMAIN buffers[s] :
                      i < j =>
                         LET small == buffers[s][i].values
                             large == buffers[s][j].values
                         IN  /\ Len(small) <= Len(large)
                             /\ small = SubSeq(large,
                                              Len(large) - Len(small) + 1,
                                              Len(large))
                             /\ LastOf(buffers[s][i]) = LastOf(buffers[s][j])

\* two non-empty batches of a symbol have been ingested, the first tier has
\* dropped a value that the last tier still holds, and the stream does not
\* end with 0
C12_Witness ==
    \E s \in DOMAIN buffers :
        /\ ret.call.op = "ingest" /\ ret.call.symbol = s
        /\ ret.result = OkUnit
        /\ \A p \in Procs : ~InIngest(p)
        /\ Len(log[s]) = 2
        /\ log[s][1] # << >> /\ log[s][2] # << >>
        /\ Len(buffers[s][0].values) < Len(buffers[s][NumTiers - 1].values)
        /\ Len(buffers[s][NumTiers - 1].values) = Len(Flatten(log[s]))
        /\ LastOf(buffers[s][0]) # 0

\* C13: get_stats of a buffer whose window is empty is all zero (min, max,
\* last, avg and var), for every buffer of the map and for what a query
\* returned; no result ever carries the sentinel f64::MAX as min or f64::MIN
\* as max.
C13_EmptyWindowAllZero ==
    /\ \A s \in DOMAIN buffers : \A i \in DOMAIN buffers[s] :
          LET st == get_stats(buffers[s][i])
          IN  /\ buffers[s][i].values = << >> =>
                    /\ st.min = 0 /\ st.max = 0 /\ st.last = 0
                    /\ st.avg.num = 0 /\ st.var.num = 0
                    /\ st.avg.den = 1 /\ st.var.den = 1
              /\ st.min # F64_MAX /\ st.max # F64_MIN
    /\ (ret.call.op = "query" /\ ret.result.kind = "Stats") =>
          /\ ret.result.stats.min # F64_MAX
          /\ ret.result.stats.max # F64_MIN
          /\ buffers[ret.call.symbol][ret.call.k - 1].values = << >> =>
                /\ ret.result.stats.min = 0 /\ ret.result.stats.max = 0
                /\ ret.result.stats.last = 0
                /\ ret.result.stats.avg.num = 0
                /\ ret.result.stats.var.num = 0

\* a query has just returned the statistics of a buffer that an ingest of an
\* empty batch created: its window is empty and its min and max fields still
\* hold the sentinels
C13_Witness ==
    /\ ret.call.op = "query" /\ ret.result.kind = "Stats"
    /\ LET b == buffers[ret.call.symbol][ret.call.k - 1]
       IN  /\ b.values = << >>
           /\ b.min = F64_MAX /\ b.max = F64_MIN
    /\ log[ret.call.symbol] = << << >> >>

\* the step is a step of caller p's get_stats call: its start, its rejection
\* or its return
QueryStep(p) ==
    \/ pc[p] = "idle" /\ arg'[p].op = "query"
    \/ ret'.proc = p /\ ret'.call.op = "query"
    \/ QueryReturns(p)

\* what a step may do if it belongs to a get_stats call, and what a query
\* returns when it follows a query of the same symbol and tier
QueryFrame ==
    /\ \A p \in Procs :
          QueryStep(p) =>
             /\ DOMAIN buffers' = DOMAIN buffers
             /\ buffers' = buffers
             /\ log' = log
    /\ (ret'.call.op = "query" /\ ret'.result = ErrSymbolNotFound) =>
          ret'.call.symbol \notin DOMAIN buffers'
    /\ \A q \in Procs :
          (/\ QueryReturns(q)
           /\ ret.call.op = "query"
           /\ ret.call.symbol = arg[q].symbol
           /\ ret.call.k = arg[q].k) =>
              ret'.result = ret.result

\* C15: a query has no side effects: no step of a get_stats call changes a
\* buffer (window, min, max, sum, sum_squares) or the set of symbols of the
\* map, a query for an unknown symbol creates no entry, and a query that
\* returns right after another query of the same symbol and tier, with no
\* append in between, returns the same result.
C15_QueryHasNoSideEffects == [][QueryFrame]_vars

\* a query has just returned the statistics of a non-empty window, and a
\* second query of the same symbol and tier holds the read guard and is about
\* to return
C15_Witness ==
    \E q \in Procs :
        /\ pc[q] = "read"
        /\ ret.call.op = "query" /\ ret.result.kind = "Stats"
        /\ ret.proc # q
        /\ ret.call.symbol = arg[q].symbol /\ ret.call.k = arg[q].k
        /\ buffers[arg[q].symbol][arg[q].k - 1].values # << >>
        /\ ret.result.stats.max # 0

\* the values that tier i of symbol s has received if the batches of log[s]
\* are applied whole and in order, the batch of an ingest that is inside its
\* fan-out being applied up to the position of its loops
Applied(s, i) ==
    LET mid == {p \in Procs : pc[p] = "add" /\ arg[p].symbol = s}
    IN  IF mid = {} THEN Flatten(log[s])
        ELSE LET p == CHOOSE q \in mid : TRUE
                 done == Flatten(SubSeq(log[s], 1, Len(log[s]) - 1))
                 vs == arg[p].values
             IN  IF i < pos[p][1] THEN done \o vs
                 ELSE IF i = pos[p][1]
                      THEN done \o SubSeq(vs, 1, pos[p][2] - 1)
                      ELSE done

\* C19: ingests are serialized behind the one write guard: at most one
\* ingest is between taking and dropping it, it is the lock's writer, and no
\* query reads meanwhile; every buffer of every tier is, field by field, what
\* applying the symbol's whole batches one after another in lock order gives
\* (the running ingest's batch up to its position), the same batch order on
\* every tier, so the values of two batches are never interleaved.
C19_IngestsSerialized ==
    /\ Cardinality({p \in Procs : InIngest(p)}) <= 1
    /\ \A p \in Procs :
          InIngest(p) =>
             /\ lock.writer = p
             /\ lock.readers = {}
             /\ \A q \in Procs : pc[q] # "read"
    /\ \A s \in DOMAIN buffers : \A i \in DOMAIN buffers[s] :
          buffers[s][i]
             = add_batch(new(buffers[s][i].capacity), Applied(s, i))

\* two ingests of one symbol raced, each with a batch of two values, the
\* batches differ, and both have returned: the first tier holds the later
\* batch and the last tier both, in lock order
C19_Witness ==
    \E s \in raced :
        /\ ret.call.op = "ingest" /\ ret.call.symbol = s
        /\ \A p \in Procs : pc[p] = "idle"
        /\ Len(log[s]) = 2
        /\ Len(log[s][1]) = 2 /\ Len(log[s][2]) = 2
        /\ log[s][1] # log[s][2]
        /\ log[s][1][1] # log[s][1][2]
        /\ buffers[s][0].values = log[s][2]
        /\ buffers[s][NumTiers - 1].values = log[s][1] \o log[s][2]

\* the symbols for which an ingest is between taking and dropping the write
\* guard
IngestSymbols == {arg[p].symbol : p \in {q \in Procs : InIngest(q)}}

\* what a step may change in the map: only the entry of a symbol that is
\* being ingested
IngestFrame ==
    /\ DOMAIN buffers \subseteq DOMAIN buffers'
    /\ DOMAIN buffers' \ DOMAIN buffers \subseteq IngestSymbols
    /\ \A t \in DOMAIN buffers :
          t \notin IngestSymbols =>
             /\ buffers'[t] = buffers[t]
             /\ \A k \in 1..NumTiers :
                   Lookup(buffers', t, k) = Lookup(buffers, t, k)

\* C20: an ingest for symbol S changes only S's entry: in every step, the
\* buffers (windows, min, max, sums) and the statistics of every other symbol
\* of the map stay as they are, no entry disappears, and no entry is created
\* for a symbol other than S.
C20_IngestTouchesOnlyItsSymbol == [][IngestFrame]_vars

\* an ingest of a non-empty batch for one symbol has just returned while
\* the other symbol has an entry with other, non-empty windows
C20_Witness ==
    \E s, t \in DOMAIN buffers :
        /\ s # t
        /\ ret.call.op = "ingest" /\ ret.result = OkUnit
        /\ ret.call.symbol = s /\ ret.call.values # << >>
        /\ buffers[t][0].values # << >>
        /\ buffers[t][0].values = Flatten(log[t])
        /\ buffers[t][0].values # buffers[s][0].values

====
